---- MODULE Spec2Model ----
(***************************************************************************)
(* Model of server/app.py: the similarity-transform solver, the geometry   *)
(* transformer, the /transform handler that projects the raw dataset, and  *)
(* the in-memory session map with the upload and delete handlers.          *)
(***************************************************************************)
EXTENDS Integers, Sequences, FiniteSets, TLC

VARIABLES sessions, heap, pending, nextUuid, last

vars == <<sessions, heap, pending, nextUuid, last>>

(***************************************************************************)
(* Numbers.  A float is modelled as an exact fraction <<n, d>> in lowest   *)
(* terms with d >= 0.  d = 0 gives the IEEE special values numpy produces  *)
(* on a division by zero: <<0,0>> is nan, <<1,0>> is inf, <<-1,0>> is      *)
(* -inf.  Rounding error is not modelled.                                  *)
(***************************************************************************)
Abs(i) == IF i < 0 THEN -i ELSE i

Sign(i) == IF i < 0 THEN -1 ELSE IF i > 0 THEN 1 ELSE 0

RECURSIVE GCD(_, _)
GCD(a, b) == IF b = 0 THEN a ELSE GCD(b, a % b)

Norm(n, d) ==
    IF d = 0 THEN <<Sign(n), 0>>
    ELSE LET g == GCD(Abs(n), Abs(d))
         IN  <<Sign(d) * (n \div g), Abs(d) \div g>>

Float(i) == <<i, 1>>

NaN == <<0, 0>>

IsNaN(a) == a = NaN

IsFinite(a) == a[2] # 0

\* x + 0 = x and 0 + x = x need no reduction to lowest terms.
Add(a, b) ==
    CASE a = <<0, 1>> -> b
      [] b = <<0, 1>> -> a
      [] a[2] = 0 /\ b[2] = 0 -> (IF a = b THEN a ELSE NaN)
      [] OTHER -> Norm(a[1] * b[2] + b[1] * a[2], a[2] * b[2])

Neg(a) == <<-a[1], a[2]>>

Sub(a, b) == Add(a, Neg(b))

\* 1 * x = x, and 0 * x = 0 for finite x, need no reduction either.
Mul(a, b) ==
    CASE a = <<1, 1>> -> b
      [] b = <<1, 1>> -> a
      [] a = <<0, 1>> /\ b[2] # 0 -> a
      [] b = <<0, 1>> /\ a[2] # 0 -> b
      [] OTHER -> Norm(a[1] * b[1], a[2] * b[2])

Div(a, b) ==
    IF b[1] = 0 THEN Norm(a[1] * b[2], 0)
    ELSE Norm(a[1] * b[2] * Sign(b[1]), a[2] * Abs(b[1]))

Lt(a, b) ==
    /\ ~IsNaN(a)
    /\ ~IsNaN(b)
    /\ a # b
    /\ CASE a = <<1, 0>> -> FALSE
         [] b = <<-1, 0>> -> FALSE
         [] a = <<-1, 0>> -> TRUE
         [] b = <<1, 0>> -> TRUE
         [] OTHER -> a[1] * b[2] < b[1] * a[2]

\* a == b on floats: nan equals nothing, itself included.
FloatEq(a, b) == ~IsNaN(a) /\ ~IsNaN(b) /\ a = b

RECURSIVE SumSeq(_)
SumSeq(s) == IF s = <<>> THEN Float(0) ELSE Add(Head(s), SumSeq(Tail(s)))

(***************************************************************************)
(* 2-vectors and 2x2 matrices of floats (numpy arrays of shape (2,) and    *)
(* (2,2)); a point list of shape (n,2) is a sequence of 2-vectors.         *)
(***************************************************************************)
Pt(x, y) == <<Float(x), Float(y)>>

VAdd(p, q) == <<Add(p[1], q[1]), Add(p[2], q[2])>>

VSub(p, q) == <<Sub(p[1], q[1]), Sub(p[2], q[2])>>

VScale(k, p) == <<Mul(k, p[1]), Mul(k, p[2])>>

Dot(p, q) == Add(Mul(p[1], q[1]), Mul(p[2], q[2]))

MatVec(A, p) == <<Dot(A[1], p), Dot(A[2], p)>>

Transpose(A) == <<<<A[1][1], A[2][1]>>, <<A[1][2], A[2][2]>>>>

MatMul(A, B) ==
    LET Bt == Transpose(B)
    IN  <<<<Dot(A[1], Bt[1]), Dot(A[1], Bt[2])>>,
          <<Dot(A[2], Bt[1]), Dot(A[2], Bt[2])>>>>

Det(A) == Sub(Mul(A[1][1], A[2][2]), Mul(A[1][2], A[2][1]))

Mat(a, b, c, d) == <<<<Float(a), Float(b)>>, <<Float(c), Float(d)>>>>

Identity == Mat(1, 0, 0, 1)

\* src.mean(axis=0): the column sums over the row count (0/0 = nan on no rows).
Mean(pts) ==
    <<Div(SumSeq([i \in 1..Len(pts) |-> pts[i][1]]), Float(Len(pts))),
      Div(SumSeq([i \in 1..Len(pts) |-> pts[i][2]]), Float(Len(pts)))>>

\* src - src_mean: the mean subtracted from every row.
Centre(pts) == LET m == Mean(pts) IN [i \in 1..Len(pts) |-> VSub(pts[i], m)]

\* src_c.T @ dst_c: M[a][b] is the sum over rows i of src_c[i][a] * dst_c[i][b].
CrossCov(src_c, dst_c) ==
    LET e(a, b) == SumSeq([i \in 1..Len(src_c) |-> Mul(src_c[i][a], dst_c[i][b])])
    IN  <<<<e(1, 1), e(1, 2)>>, <<e(2, 1), e(2, 2)>>>>

\* np.sum(X * Y): the sum of the element-wise products of two (n,2) arrays.
SumProd(X, Y) == SumSeq([i \in 1..Len(X) |-> Dot(X[i], Y[i])])

(***************************************************************************)
(* np.linalg.svd(M) returns U, S, Vt with U and Vt orthogonal, S >= 0 in   *)
(* descending order and U @ diag(S) @ Vt = M.  The factors are determined  *)
(* only up to signs (and up to a rotation when singular values coincide),  *)
(* so the call is a choice among the decompositions.  Orthogonal holds the *)
(* orthogonal matrices with exactly representable entries: the eight       *)
(* signed permutations.  A matrix with no decomposition over them is       *)
(* outside the inputs explored.                                            *)
(***************************************************************************)
Orthogonal ==
    { Mat(a, 0, 0, d) : a \in {-1, 1}, d \in {-1, 1} }
      \cup { Mat(0, b, c, 0) : b \in {-1, 1}, c \in {-1, 1} }

IsSingularValues(D) ==
    /\ D[1][2] = Float(0)
    /\ D[2][1] = Float(0)
    /\ ~Lt(D[2][2], Float(0))
    /\ ~Lt(D[1][1], D[2][2])
    /\ IsFinite(D[1][1])
    /\ IsFinite(D[2][2])

\* A product of signed permutations and a diagonal matrix has its nonzero
\* entries on one diagonal: other matrices are set aside before the search.
svd(M) ==
    IF ~(M[1][2] = Float(0) /\ M[2][1] = Float(0)) /\ ~(M[1][1] = Float(0) /\ M[2][2] = Float(0))
    THEN {}
    ELSE UNION { { <<U, Vt>> : Vt \in { V \in Orthogonal :
                                          IsSingularValues(MatMul(UtM, Transpose(V))) } } :
                 <<U, UtM>> \in { <<W, MatMul(Transpose(W), M)>> : W \in Orthogonal } }

(***************************************************************************)
(* compute_similarity_transform                                            *)
(***************************************************************************)
\* R = Vt.T @ U.T with no reflection check.
RotationNoFlip(U, Vt) == MatMul(Transpose(Vt), Transpose(U))

\* R = Vt.T @ U.T; if det(R) < 0, Vt[-1] *= -1 and R is computed again.
Rotation(U, Vt) ==
    LET R == MatMul(Transpose(Vt), Transpose(U))
    IN  IF Lt(Det(R), Float(0))
        THEN MatMul(Transpose(<<Vt[1], VScale(Float(-1), Vt[2])>>), Transpose(U))
        ELSE R

\* Every (scale, R, t) the function can return on src, dst: one for each
\* rotation the decompositions of M lead to.
compute_similarity_transform(src, dst) ==
    LET src_mean == Mean(src)
        dst_mean == Mean(dst)
        src_c == Centre(src)
        dst_c == Centre(dst)
        M == CrossCov(src_c, dst_c)
        fit(R) ==
            LET A == [i \in 1..Len(src_c) |-> MatVec(R, src_c[i])]
                scale == Div(SumProd(dst_c, A), SumProd(src_c, src_c))
                t == VSub(dst_mean, VScale(scale, MatVec(R, src_mean)))
            IN  [scale |-> scale, R |-> R, t |-> t]
    IN  { fit(R) : R \in { Rotation(uv[1], uv[2]) : uv \in svd(M) } }

(***************************************************************************)
(* transform_point, transform_geom                                         *)
(*                                                                         *)
(* A geometry is a record with a type tag (shapely's geom_type).  A Point  *)
(* and a LineString carry coords, a Polygon carries exterior and           *)
(* interiors, every other kind carries geoms.                              *)
(***************************************************************************)
\* P = scale * (R @ p), the translation left out.
transform_point_no_t(p, model) == VScale(model.scale, MatVec(model.R, p))

\* P = scale * (R @ p) + t
transform_point(p, model) ==
    VAdd(VScale(model.scale, MatVec(model.R, p)), model.t)

MapCoords(coords, model) ==
    [i \in 1..Len(coords) |-> transform_point(coords[i], model)]

\* What a shapely constructor raises when GEOS rejects the coordinates.
GEOSException == [type |-> "GEOSException"]

Raises(g) == g.type = "GEOSException"

\* shapely's LinearRing(coords) appends the first point when the last differs
\* from it (as floats: a nan differs from itself).
CloseRing(coords) ==
    IF coords = <<>>
       \/ (FloatEq(coords[1][1], coords[Len(coords)][1])
             /\ FloatEq(coords[1][2], coords[Len(coords)][2]))
    THEN coords
    ELSE Append(coords, coords[1])

\* GEOS accepts a ring that is empty, or has 4 points or more and a first and
\* a last point that compare equal.
RingAccepted(ring) ==
    \/ ring = <<>>
    \/ /\ Len(ring) >= 4
       /\ FloatEq(ring[1][1], ring[Len(ring)][1])
       /\ FloatEq(ring[1][2], ring[Len(ring)][2])

\* shapely's Polygon(exterior, holes): the polygon of the closed rings, or the
\* exception GEOS raises on a ring it does not accept.
Polygon(exterior, holes) ==
    LET shell == CloseRing(exterior)
        rings == [h \in 1..Len(holes) |-> CloseRing(holes[h])]
    IN  IF RingAccepted(shell) /\ \A h \in 1..Len(rings) : RingAccepted(rings[h])
        THEN [type |-> "Polygon", exterior |-> shell, interiors |-> rings]
        ELSE GEOSException

\* MultiPolygon([...]), MultiLineString([...]): the list comprehension raises
\* when the mapping of a child does.
Multi(kind, geoms) ==
    IF \E k \in 1..Len(geoms) : Raises(geoms[k])
    THEN GEOSException
    ELSE [type |-> kind, geoms |-> geoms]

Point(x, y) == [type |-> "Point", coords |-> <<<<x, y>>>>]

LineString(coords) == [type |-> "LineString", coords |-> coords]

\* The Polygon branch with the holes left out.
transform_polygon_no_holes(g, model) == Polygon(MapCoords(g.exterior, model), <<>>)

\* The Polygon branch: the exterior and every hole mapped point by point.
transform_polygon(g, model) ==
    Polygon(MapCoords(g.exterior, model),
            [h \in 1..Len(g.interiors) |-> MapCoords(g.interiors[h], model)])

\* A last branch that maps the children of a kind the function does not know.
transform_other_mapped(g, model) ==
    [type |-> g.type,
     geoms |-> [k \in 1..Len(g.geoms) |->
                  [type |-> g.geoms[k].type,
                   coords |-> MapCoords(g.geoms[k].coords, model)]]]

\* The last branch: return g.
transform_other(g, model) == g

RECURSIVE transform_geom(_, _)
transform_geom(g, model) ==
    CASE g.type = "Point" ->
           LET P == transform_point(g.coords[1], model) IN Point(P[1], P[2])
      [] g.type = "Polygon" -> transform_polygon(g, model)
      [] g.type = "MultiPolygon" ->
           Multi("MultiPolygon",
                 [k \in 1..Len(g.geoms) |-> transform_geom(g.geoms[k], model)])
      [] g.type = "LineString" -> LineString(MapCoords(g.coords, model))
      [] g.type = "MultiLineString" ->
           Multi("MultiLineString",
                 [k \in 1..Len(g.geoms) |-> transform_geom(g.geoms[k], model)])
      [] OTHER -> transform_other(g, model)

(***************************************************************************)
(* Bounds and inputs.                                                      *)
(***************************************************************************)
\* Session ids uuid4 generates during a run.
MaxSessions == 2

\* upload_ref requests that can be suspended at their file read at once.
MaxRequests == 1

\* Longest list of control point pairs in a transform request.
MaxPairs == 3

\* Most holes of a polygon, and most children of a multi-geometry.
MaxHoles == 2

MaxParts == 2

\* len(request.pairs) < 3
MinPairs == 3

Uuids == 1..MaxSessions

Requests == 1..MaxRequests

Slots == {"raw", "raw_display", "ref"}

\* The control points a request can name: raw points and reference points.
SrcPts == {Pt(0, 0), Pt(2, 0), Pt(1, 1)}

DstPts == {Pt(0, 0), Pt(2, 0), Pt(1, -1)}

RECURSIVE SeqsUpTo(_, _)
SeqsUpTo(S, n) ==
    IF n = 0 THEN {<<>>}
    ELSE LET shorter == SeqsUpTo(S, n - 1)
         IN  shorter \cup { Append(q, x) : q \in {r \in shorter : Len(r) = n - 1}, x \in S }

\* TransformRequest.pairs: [(raw_point, ref_point), ...]
PairSeqs == SeqsUpTo(SrcPts \X DstPts, MaxPairs)

\* Rings: closed coordinate sequences of 4 and of 5 vertices.
Tri(x, y) == <<Pt(x, y), Pt(x + 2, y), Pt(x + 1, y + 1), Pt(x, y)>>

Quad(x, y) == <<Pt(x, y), Pt(x + 1, y), Pt(x + 1, y + 1), Pt(x, y + 1), Pt(x, y)>>

Rings == {Tri(0, 0), Quad(3, 1)}

Polygons == { Polygon(e, hs) : e \in {Quad(0, 0), Tri(-1, 2)}, hs \in SeqsUpTo(Rings, MaxHoles) }

LineStrings == { LineString(c) : c \in {<<Pt(0, 0), Pt(1, 2)>>, <<Pt(1, 1), Pt(2, 0), Pt(3, 3)>>} }

Points == {Point(Float(0), Float(0)), Point(Float(2), Float(1))}

NonEmpty(S) == { q \in S : q # <<>> }

\* Multi-geometries: children with at most one hole, so the sets stay small.
MultiPolygons ==
    { Multi("MultiPolygon", ps) :
        ps \in NonEmpty(SeqsUpTo({ g \in Polygons : Len(g.interiors) <= 1 }, MaxParts)) }

MultiLineStrings ==
    { Multi("MultiLineString", ls) : ls \in NonEmpty(SeqsUpTo(LineStrings, MaxParts)) }

\* Kinds transform_geom has no branch for.
OtherKinds == {"MultiPoint", "GeometryCollection", "LinearRing"}

Others ==
    { Multi(k, ps) : k \in OtherKinds, ps \in NonEmpty(SeqsUpTo(Points \cup LineStrings, MaxParts)) }

Geometries ==
    Points \cup LineStrings \cup Polygons \cup MultiPolygons \cup MultiLineStrings \cup Others

IdentityModel == [scale |-> Float(1), R |-> Identity, t |-> Pt(0, 0)]

\* Models handed to transform_geom: any real scale, rotation or reflection,
\* shift.
Models ==
    { [scale |-> k, R |-> R, t |-> t] :
        k \in {Float(1), Float(2), <<-1, 2>>, <<1, 3>>, Float(0)},
        R \in Orthogonal,
        t \in {Pt(0, 0), Pt(5, 5), <<<<-1, 2>>, Float(3)>>} }

(***************************************************************************)
(* GeoDataFrames.  A frame is its crs and its rows, each row the          *)
(* attribute values and the geometry.  Frames live on a heap and are       *)
(* referred to by id, as Python objects are: <<k, slot>> names the frame   *)
(* sessions[k][slot] refers to, <<0, name>> one only a local refers to.    *)
(***************************************************************************)
NoCrs == "None"

Row(attrs, g) == [attrs |-> attrs, geometry |-> g]

Frame(crs, rows) == [crs |-> crs, rows |-> rows]

Plots ==
    Frame(NoCrs, <<Row("plot-1", Polygon(Quad(0, 0), <<Tri(0, 0)>>)),
                   Row("plot-2", Point(Float(2), Float(1)))>>)

Roads ==
    Frame("EPSG:32643", <<Row("road-1", LineString(<<Pt(0, 0), Pt(1, 2)>>))>>)

Mixed ==
    Frame(NoCrs, <<Row("m-1", Multi("MultiPolygon", <<Polygon(Quad(0, 0), <<>>),
                                                       Polygon(Tri(-1, 2), <<Quad(3, 1)>>)>>)),
                   Row("m-2", Multi("MultiPoint", <<Point(Float(0), Float(0)), Point(Float(2), Float(1))>>)),
                   Row("m-3", Multi("MultiLineString", <<LineString(<<Pt(0, 0), Pt(1, 2)>>)>>))>>)

Tracks ==
    Frame("EPSG:4326", <<Row("track-1", LineString(<<Pt(1, 1), Pt(2, 0), Pt(3, 3)>>)),
                         Row("stop-1", Point(Float(2), Float(1)))>>)

\* The raw datasets the transform handler is run on: untagged, tagged with
\* another frame than the target, tagged with the target.
RawDatasets == {Mixed, Roads, Tracks}

\* An uploaded file: a ZIP holding a shapefile, or a ZIP with no .shp in it.
ShpZip(gdf) == [kind |-> "shp", gdf |-> <<gdf>>]

NoShpZip == [kind |-> "noshp", gdf |-> <<>>]

\* The uploads and the transform requests explored together with the
\* interleavings of the session handlers.
RawFiles == {NoShpZip, ShpZip(Plots), ShpZip(Roads)}

RefFiles == {NoShpZip, ShpZip(Roads)}

TooFewPairs == <<<<Pt(0, 0), Pt(0, 0)>>, <<Pt(2, 0), Pt(2, 0)>>>>

MirroredPairs == <<<<Pt(0, 0), Pt(0, 0)>>, <<Pt(2, 0), Pt(2, 0)>>, <<Pt(1, 1), Pt(1, -1)>>>>

ServicePairs == {TooFewPairs, MirroredPairs}

\* raw_pts = np.array([pair[0] for pair in request.pairs])
SrcOf(pairs) == [i \in 1..Len(pairs) |-> pairs[i][1]]

\* ref_pts = np.array([pair[1] for pair in request.pairs])
DstOf(pairs) == [i \in 1..Len(pairs) |-> pairs[i][2]]

\* The fits of the requests in ServicePairs, tabulated: they are asked for from
\* every state of the service.
ServiceFits ==
    [pairs \in { q \in ServicePairs : Len(q) >= MinPairs } |->
        compute_similarity_transform(SrcOf(pairs), DstOf(pairs))]

(***************************************************************************)
(* Exceptions and responses.                                               *)
(***************************************************************************)
HTTPException(status, detail) == [kind |-> "HTTPException", status |-> status, detail |-> detail]

Raised(kind, message) == [kind |-> kind, status |-> 0, detail |-> message]

\* str(e).  For an HTTPException built with keyword arguments it is "" where
\* the class defines no __str__ and "<status_code>: <detail>" where it does;
\* which one depends on the installed Starlette.
StrOf(e) ==
    IF e.kind = "HTTPException"
    THEN {"", ToString(e.status) \o ": " \o e.detail}
    ELSE {e.detail}

\* except Exception as e: raise HTTPException(status_code=500, detail=str(e))
Wrapped(e) == { HTTPException(500, d) : d \in StrOf(e) }

\* What the last handler step did: the request, and the response sent (status 0
\* while none is sent yet).  model and written hold zero or one value.
Reply(op, sid, pairs, status, detail, model, written) ==
    [op |-> op, sid |-> sid, pairs |-> pairs, status |-> status, detail |-> detail,
     model |-> model, written |-> written]

(***************************************************************************)
(* Frames on the heap.                                                     *)
(***************************************************************************)
Put(h, id, frame) == [x \in DOMAIN h \cup {id} |-> IF x = id THEN frame ELSE h[x]]

\* The frames the session map refers to: locals die with the handler.
Stored(sess) == UNION { { sess[k][slot] : slot \in DOMAIN sess[k] } : k \in DOMAIN sess }

Collect(h, sess) == [x \in DOMAIN h \cap Stored(sess) |-> h[x]]

\* raw_trans = raw with no copy made: both names refer to one frame.
NoCopy(h, id, new) == [heap |-> h, id |-> id]

\* DataFrame.copy(): a new frame with the same crs and rows.
Copy(h, id, new) == [heap |-> Put(h, new, h[id]), id |-> new]

\* df["geometry"] = series: assignment in place to the frame df refers to.
SetGeometry(h, id, geoms) ==
    [h EXCEPT ![id].rows = [i \in 1..Len(@) |-> Row(@[i].attrs, geoms[i])]]

\* GeoDataFrame.set_crs(crs, allow_override): raises when the frame has another
\* crs and allow_override is not set; otherwise returns a copy tagged crs.
set_crs(h, id, crs, allow_override, new) ==
    IF ~allow_override /\ h[id].crs # NoCrs /\ h[id].crs # crs
    THEN [raised |-> <<Raised("ValueError", "The GeoDataFrame already has a CRS which is not equal to the passed CRS.")>>,
          heap |-> h, id |-> id]
    ELSE [raised |-> <<>>, heap |-> Put(h, new, Frame(crs, h[id].rows)), id |-> new]

load_shapefile_from_zip(file) ==
    IF file.kind = "noshp"
    THEN [raised |-> <<HTTPException(400, "No .shp file found")>>, gdf |-> <<>>]
    ELSE [raised |-> <<>>, gdf |-> file.gdf]

(***************************************************************************)
(* State.  sessions maps a session id to a dict from slot to frame id;     *)
(* heap holds the frames; pending[r] holds the upload_ref request r that   *)
(* is suspended at "await file.read()", or nothing; nextUuid counts the    *)
(* ids uuid4 has generated; last is the step just taken.                   *)
(***************************************************************************)
Idle == Reply("none", 0, <<>>, 0, "", <<>>, <<>>)

Empty == [x \in {} |-> <<>>]

Init ==
    /\ sessions = Empty
    /\ heap = Empty
    /\ pending = [r \in Requests |-> <<>>]
    /\ nextUuid = 1
    /\ last = Idle

(***************************************************************************)
(* POST /upload/raw.  The handler suspends only at its first statement,    *)
(* the file read, before it touches the session map: the rest is one step. *)
(***************************************************************************)
upload_raw(file) ==
    LET loaded == load_shapefile_from_zip(file)
    IN  IF loaded.raised # <<>>
        THEN /\ \E e \in Wrapped(loaded.raised[1]) :
                   last' = Reply("upload_raw", 0, <<>>, e.status, e.detail, <<>>, <<>>)
             /\ UNCHANGED <<sessions, heap, pending, nextUuid>>
        ELSE /\ nextUuid <= MaxSessions
             /\ LET session_id == nextUuid
                    h1 == Put(heap, <<session_id, "raw">>, loaded.gdf[1])
                    c == Copy(h1, <<session_id, "raw">>, <<0, "gdf_display">>)
                    d == set_crs(c.heap, c.id, "EPSG:3857", TRUE, <<session_id, "raw_display">>)
                    entry == ("raw" :> <<session_id, "raw">>) @@ ("raw_display" :> d.id)
                    stored == [k \in DOMAIN sessions \cup {session_id} |->
                                 IF k = session_id THEN entry ELSE sessions[k]]
                IN  /\ sessions' = stored
                    /\ heap' = Collect(d.heap, stored)
                    /\ nextUuid' = nextUuid + 1
                    /\ last' = Reply("upload_raw", session_id, <<>>, 200, "", <<>>, <<>>)
             /\ UNCHANGED pending

(***************************************************************************)
(* POST /upload/ref, in two steps: up to the file read, and from it on.    *)
(***************************************************************************)
upload_ref_begin(r, session_id, file) ==
    /\ pending[r] = <<>>
    /\ IF session_id \notin DOMAIN sessions
       THEN /\ \E e \in Wrapped(HTTPException(404, "Session not found")) :
                  last' = Reply("upload_ref", session_id, <<>>, e.status, e.detail, <<>>, <<>>)
            /\ UNCHANGED pending
       ELSE /\ pending' = [pending EXCEPT ![r] = <<[session_id |-> session_id, file |-> file]>>]
            /\ last' = Reply("upload_ref", session_id, <<>>, 0, "", <<>>, <<>>)
    /\ UNCHANGED <<sessions, heap, nextUuid>>

\* sessions.setdefault(session_id, {})["ref"] = gdf: creates a missing entry.
store_ref_setdefault(sess, session_id, id) ==
    [raised |-> <<>>,
     sessions |-> [k \in DOMAIN sess \cup {session_id} |->
                     IF k = session_id
                     THEN (IF k \in DOMAIN sess THEN ("ref" :> id) @@ sess[k] ELSE ("ref" :> id))
                     ELSE sess[k]]]

\* sessions[session_id]["ref"] = gdf: KeyError when the entry is gone.
store_ref(sess, session_id, id) ==
    IF session_id \notin DOMAIN sess
    THEN [raised |-> <<Raised("KeyError", "'<session_id>'")>>, sessions |-> sess]
    ELSE [raised |-> <<>>,
          sessions |-> [sess EXCEPT ![session_id] = ("ref" :> id) @@ @]]

upload_ref_resume(r) ==
    /\ pending[r] # <<>>
    /\ LET session_id == pending[r][1].session_id
           loaded == load_shapefile_from_zip(pending[r][1].file)
           id == <<session_id, "ref">>
           st == store_ref(sessions, session_id, id)
           raised == IF loaded.raised # <<>> THEN loaded.raised ELSE st.raised
       IN  IF raised # <<>>
           THEN /\ \E e \in Wrapped(raised[1]) :
                      last' = Reply("upload_ref", session_id, <<>>, e.status, e.detail, <<>>, <<>>)
                /\ UNCHANGED <<sessions, heap>>
           ELSE /\ sessions' = st.sessions
                /\ heap' = Collect(Put(heap, id, loaded.gdf[1]), st.sessions)
                /\ last' = Reply("upload_ref", session_id, <<>>, 200, "", <<>>, <<>>)
    /\ pending' = [pending EXCEPT ![r] = <<>>]
    /\ UNCHANGED nextUuid

(***************************************************************************)
(* POST /transform.  The handler never suspends: one step.                 *)
(***************************************************************************)
\* The outcomes of the body of the try block: the exception raised if any, the
\* model fitted if any, the frame written to georef_final.shp if any, the heap.
TransformResults(session_id, pairs) ==
    LET none(e) == {[raised |-> <<e>>, model |-> <<>>, written |-> <<>>, heap |-> heap]}
    IN  IF session_id \notin DOMAIN sessions
        THEN none(HTTPException(404, "Session not found"))
        ELSE IF Len(pairs) < MinPairs
        THEN none(HTTPException(400, "At least 3 control point pairs required"))
        ELSE IF "raw" \notin DOMAIN sessions[session_id]
        THEN none(Raised("KeyError", "'raw'"))
        ELSE LET raw == sessions[session_id]["raw"]
                 raw_pts == SrcOf(pairs)
                 ref_pts == DstOf(pairs)
                 fits == IF pairs \in DOMAIN ServiceFits
                         THEN ServiceFits[pairs]
                         ELSE compute_similarity_transform(raw_pts, ref_pts)
                 project(model) ==
                     LET c == Copy(heap, raw, <<0, "raw_trans">>)
                         geoms == [i \in 1..Len(heap[raw].rows) |->
                                     transform_geom(heap[raw].rows[i].geometry, model)]
                     IN  IF \E i \in 1..Len(geoms) : Raises(geoms[i])
                         THEN [raised |-> <<Raised("GEOSException", "IllegalArgumentException: Points of LinearRing do not form a closed linestring")>>,
                               model |-> <<model>>, written |-> <<>>, heap |-> c.heap]
                         ELSE LET h2 == SetGeometry(c.heap, c.id, geoms)
                                  d == set_crs(h2, c.id, "EPSG:4326", FALSE, <<0, "raw_trans_crs">>)
                              IN  [raised |-> d.raised,
                                   model |-> <<model>>,
                                   written |-> IF d.raised = <<>> THEN <<d.heap[d.id]>> ELSE <<>>,
                                   heap |-> d.heap]
             IN  { project(model) : model \in fits }

apply_transformation(session_id, pairs) ==
    /\ \E res \in TransformResults(session_id, pairs) :
         /\ heap' = Collect(res.heap, sessions)
         /\ IF res.raised # <<>>
            THEN \E e \in Wrapped(res.raised[1]) :
                    last' = Reply("transform", session_id, pairs, e.status, e.detail,
                                  res.model, <<>>)
            ELSE last' = Reply("transform", session_id, pairs, 200, "", res.model, res.written)
    /\ UNCHANGED <<sessions, pending, nextUuid>>

(***************************************************************************)
(* DELETE /session/{session_id}: no try block, the 404 goes out as raised. *)
(***************************************************************************)
delete_session(session_id) ==
    /\ IF session_id \in DOMAIN sessions
       THEN /\ sessions' = [k \in DOMAIN sessions \ {session_id} |-> sessions[k]]
            /\ heap' = Collect(heap, sessions')
            /\ last' = Reply("delete_session", session_id, <<>>, 200, "Session deleted", <<>>, <<>>)
       ELSE /\ last' = Reply("delete_session", session_id, <<>>, 404, "Session not found", <<>>, <<>>)
            /\ UNCHANGED <<sessions, heap>>
    /\ UNCHANGED <<pending, nextUuid>>

(***************************************************************************)
(* Specifications.                                                         *)
(***************************************************************************)
\* The service: every interleaving of the handlers' steps.
Next ==
    \/ \E file \in RawFiles : upload_raw(file)
    \/ \E r \in Requests, k \in Uuids, file \in RefFiles : upload_ref_begin(r, k, file)
    \/ \E r \in Requests : upload_ref_resume(r)
    \/ \E k \in Uuids, pairs \in ServicePairs : apply_transformation(k, pairs)
    \/ \E k \in Uuids : delete_session(k)

Spec == Init /\ [][Next]_vars

\* The transform handler on every request, over every raw dataset: the
\* initial states hold one session and the request, the one step handles it.
InitFit ==
    /\ \E c \in RawDatasets :
         heap = Put(Put(Empty, <<1, "raw">>, c), <<1, "raw_display">>, Frame("EPSG:3857", c.rows))
    /\ sessions = (1 :> (("raw" :> <<1, "raw">>) @@ ("raw_display" :> <<1, "raw_display">>)))
    /\ pending = [r \in Requests |-> <<>>]
    /\ nextUuid = 2
    /\ \E pairs \in PairSeqs : last = Reply("request", 1, pairs, 0, "", <<>>, <<>>)

NextFit == last.op = "request" /\ apply_transformation(last.sid, last.pairs)

SpecFit == InitFit /\ [][NextFit]_vars

\* transform_geom on every geometry and model: the initial states hold the
\* arguments, the one step the result.
InitGeom ==
    /\ sessions = Empty
    /\ heap = Empty
    /\ pending = [r \in Requests |-> <<>>]
    /\ nextUuid = 1
    /\ \E g \in Geometries, model \in Models :
         last = [op |-> "call", g |-> g, model |-> model, out |-> <<>>]

map_geometry ==
    /\ last.op = "call"
    /\ last' = [op |-> "transform_geom", g |-> last.g, model |-> last.model,
                out |-> <<transform_geom(last.g, last.model)>>]
    /\ UNCHANGED <<sessions, heap, pending, nextUuid>>

NextGeom == map_geometry

SpecGeom == InitGeom /\ [][NextGeom]_vars

(***************************************************************************)
(* Properties.                                                             *)
(***************************************************************************)
Supported == {"Point", "LineString", "Polygon", "MultiPolygon", "MultiLineString"}

\* The frames the session map holds, by session id and slot.
StoreView ==
    [k \in DOMAIN sessions |-> [slot \in DOMAIN sessions[k] |-> heap[sessions[k][slot]]]]

\* Sum of the squared centred source coordinates of a request.
SourceSpread(pairs) == SumProd(Centre(SrcOf(pairs)), Centre(SrcOf(pairs)))

RECURSIVE Flatten(_)
Flatten(ss) == IF ss = <<>> THEN <<>> ELSE Head(ss) \o Flatten(Tail(ss))

\* Every coordinate of a geometry, in the order of its rings and children.
RECURSIVE Coordinates(_)
Coordinates(g) ==
    CASE g.type \in {"Point", "LineString"} -> g.coords
      [] g.type = "Polygon" -> g.exterior \o Flatten(g.interiors)
      [] OTHER -> Flatten([k \in 1..Len(g.geoms) |-> Coordinates(g.geoms[k])])

\* scale * (R . p) + t, written out by component.
Similarity(p, m) ==
    <<Add(Mul(m.scale, Add(Mul(m.R[1][1], p[1]), Mul(m.R[1][2], p[2]))), m.t[1]),
      Add(Mul(m.scale, Add(Mul(m.R[2][1], p[1]), Mul(m.R[2][2], p[2]))), m.t[2])>>

\* Same kind, same number of rings and children, same vertex count in each.
RECURSIVE SameShape(_, _)
SameShape(g, out) ==
    /\ out.type = g.type
    /\ CASE g.type \in {"Point", "LineString"} -> Len(out.coords) = Len(g.coords)
         [] g.type = "Polygon" ->
              /\ Len(out.exterior) = Len(g.exterior)
              /\ Len(out.interiors) = Len(g.interiors)
              /\ \A h \in 1..Len(g.interiors) : Len(out.interiors[h]) = Len(g.interiors[h])
         [] OTHER ->
              /\ Len(out.geoms) = Len(g.geoms)
              /\ \A k \in 1..Len(g.geoms) : SameShape(g.geoms[k], out.geoms[k])

\* C1: a transform request with fewer than 3 pairs is answered with the error
\* raised for it (status 400, "At least 3 control point pairs required"), which
\* no other outcome shares, and fits no model; a request with 3 or more pairs
\* never gets that answer.
C1_InsufficientPointsDistinct ==
    last.op = "transform" =>
        /\ Len(last.pairs) < MinPairs =>
              /\ last.status = 400
              /\ last.detail = "At least 3 control point pairs required"
              /\ last.model = <<>>
        /\ Len(last.pairs) >= MinPairs => last.status # 400

\* C2: a transform request with 3 or more pairs whose source points coincide
\* (zero sum of squared centred source coordinates) is answered with an error
\* and returns no model.
C2_DegenerateSourceRejected ==
    (last.op = "transform" /\ Len(last.pairs) >= MinPairs
        /\ SourceSpread(last.pairs) = Float(0))
    => (last.model = <<>> /\ last.status # 200)

\* C3: the rotation of every fitted model is orthonormal with determinant +1.
C3_ProperRotation ==
    (last.op = "transform" /\ last.model # <<>>) =>
        LET R == last.model[1].R
        IN  /\ MatMul(Transpose(R), R) = Identity
            /\ Det(R) = Float(1)

\* C3 witness: a model was fitted from pairs whose cross-covariance has a
\* negative determinant, so that the candidate rotation was a reflection.
C3_ReflectionCorrected ==
    /\ last.op = "transform"
    /\ last.model # <<>>
    /\ Lt(Det(CrossCov(Centre(SrcOf(last.pairs)), Centre(DstOf(last.pairs)))), Float(0))

\* C4: transform_geom keeps the kind of a Polygon, MultiPolygon or
\* MultiLineString, the number and order of its holes and children, and the
\* vertex count of every ring.
C4_StructurePreserved ==
    (last.op = "transform_geom" /\ last.g.type \in {"Polygon", "MultiPolygon", "MultiLineString"})
    => SameShape(last.g, last.out[1])

\* C4 witness: a polygon with the most holes, of different vertex counts, was
\* mapped through a model that is not the identity.
C4_HolesMapped ==
    /\ last.op = "transform_geom"
    /\ last.g.type = "Polygon"
    /\ Len(last.g.interiors) = MaxHoles
    /\ Len(last.g.interiors[1]) # Len(last.g.interiors[MaxHoles])
    /\ last.model # IdentityModel

\* C5: transform_geom returns a geometry of an unsupported kind unchanged,
\* whatever the model.
C5_UnsupportedPassThrough ==
    (last.op = "transform_geom" /\ last.g.type \notin Supported)
    => last.out = <<last.g>>

\* C5 witness: a geometry of an unsupported kind was mapped through a model
\* that moves every point.
C5_UnsupportedMapped ==
    /\ last.op = "transform_geom"
    /\ last.g.type \notin Supported
    /\ last.model.scale = Float(2)
    /\ last.model.t = Pt(5, 5)

\* C6: every coordinate of the output of transform_geom on a supported
\* geometry is scale * (R . p) + t of the input coordinate at its position,
\* and the identity model returns the input.
C6_CoordinatesMapped ==
    (last.op = "transform_geom" /\ last.g.type \in Supported) =>
        LET inp == Coordinates(last.g)
            out == Coordinates(last.out[1])
        IN  /\ last.out[1].type = last.g.type
            /\ Len(out) = Len(inp)
            /\ \A i \in 1..Len(inp) : out[i] = Similarity(inp[i], last.model)
            /\ last.model = IdentityModel => last.out[1] = last.g

\* C6 witness: a multi-polygon with a hole was mapped through a model that
\* scales, turns and shifts.
C6_NestedMapped ==
    /\ last.op = "transform_geom"
    /\ last.g.type = "MultiPolygon"
    /\ \E k \in 1..Len(last.g.geoms) : last.g.geoms[k].interiors # <<>>
    /\ last.model.scale = Float(2)
    /\ last.model.R = Mat(0, -1, 1, 0)
    /\ last.model.t = Pt(5, 5)

\* C7: whenever a model of finite scale is fitted, the transform writes the
\* raw collection with every geometry mapped, the attributes as they were and
\* EPSG:4326 as the reference-frame tag, whatever tag the raw collection
\* carried.
C7_ProjectedAndTagged ==
    (last.op = "transform" /\ last.model # <<>> /\ IsFinite(last.model[1].scale)) =>
        LET raw == heap[sessions[last.sid]["raw"]]
        IN  /\ last.status = 200
            /\ last.written =
                 <<Frame("EPSG:4326",
                         [i \in 1..Len(raw.rows) |->
                            Row(raw.rows[i].attrs,
                                transform_geom(raw.rows[i].geometry, last.model[1]))])>>

\* C8: a transform request, answered with success or with an error, leaves
\* the session keys and every frame of every session as they were.
C8_TransformLeavesStore ==
    [][last'.op = "transform" => StoreView' = StoreView]_vars

\* C8 witness: a transform succeeded and wrote geometries that differ from
\* the stored raw ones.
C8_Transformed ==
    /\ last.op = "transform"
    /\ last.status = 200
    /\ last.written[1].rows # heap[sessions[last.sid]["raw"]].rows

\* C9: while an upload_ref request is suspended between its session check
\* and its write, no step deletes or changes the session it checked.
C9_WritesSerialized ==
    [][\A r \in Requests :
          (pending[r] # <<>> /\ pending'[r] = pending[r]
              /\ pending[r][1].session_id \in DOMAIN sessions)
          => /\ pending[r][1].session_id \in DOMAIN sessions'
             /\ StoreView'[pending[r][1].session_id] = StoreView[pending[r][1].session_id]]_vars

\* C10: every session in the store holds a raw frame, and no transform fails
\* on the read of the raw slot.
C10_SessionsHoldRaw ==
    /\ \A k \in DOMAIN sessions :
          "raw" \in DOMAIN sessions[k] /\ sessions[k]["raw"] \in DOMAIN heap
    /\ last.op = "transform" => last.detail # "'raw'"

\* C10 witness: an upload_ref resumed after its session was deleted, failed
\* on the missing key and created no session, while another session exists.
C10_RefAfterDelete ==
    /\ last.op = "upload_ref"
    /\ last.detail = "'<session_id>'"
    /\ last.sid \notin DOMAIN sessions
    /\ sessions # Empty

====
